---- MODULE Spec2Model ----
(***************************************************************************)
(* Model of the return-transformation pipeline of free-money-hack:         *)
(* historical.py (daily returns, leverage, MER drag, multi-leverage        *)
(* batch), rollingwindow.py (rolling returns) and simulator.py (bootstrap  *)
(* resampling).                                                            *)
(*                                                                         *)
(* Floating-point numbers are modelled as exact rationals [k, n, d] with   *)
(* the IEEE special values NaN and +/-inf.  A DataFrame is a record        *)
(* [index, cols] where cols maps a column name to its sequence of values.  *)
(* Python objects live in a heap (a sequence of frames) so that in-place   *)
(* column assignment and DataFrame.copy() keep their reference semantics.  *)
(***************************************************************************)
EXTENDS Integers, Sequences, FiniteSets, TLC

VARIABLES
    heap,        \* the live DataFrame objects: heap[1] is the reference series
    cur,         \* the object the caller's `data` variable is bound to
    stage,       \* how far along main()'s pipeline heap[cur] is
    last,        \* record of the most recent call
    fillMethod,  \* default fill_method of pct_change in the installed pandas
    leverage,    \* the request's leverage multiplier
    mer,         \* the request's annual expense ratio
    initial_value \* the request's rescaling anchor

vars == <<heap, cur, stage, last, fillMethod, leverage, mer, initial_value>>

\* ------------------------------------------------------------------ bounds
\* longest reference price series (number of closes)
MaxLen == 3
\* largest simulated path length
MaxSize == 2
\* most (leverage, mer) parameter sets in one batch
MaxSets == 2

\* ----------------------------------------------------------- float values
RECURSIVE GCD(_, _)
GCD(a, b) == IF b = 0 THEN a ELSE GCD(b, a % b)

Abs(a) == IF a < 0 THEN -a ELSE a

\* the float n/d, in lowest terms with a positive denominator
R(n, d) ==
    LET g == GCD(Abs(n), Abs(d))
        s == IF d < 0 THEN -1 ELSE 1
    IN [k |-> "num", n |-> s * (n \div g), d |-> s * (d \div g)]

NaN == [k |-> "nan", n |-> 0, d |-> 1]
Inf(s) == [k |-> "inf", n |-> s, d |-> 1]

IsNaN(a) == a.k = "nan"
IsNum(a) == a.k = "num"
Sign(a) == IF a.n > 0 THEN 1 ELSE IF a.n < 0 THEN -1 ELSE 0

FNeg(a) == [a EXCEPT !.n = -a.n]

FAdd(a, b) ==
    IF IsNaN(a) \/ IsNaN(b) THEN NaN
    ELSE IF IsNum(a) /\ IsNum(b)
         THEN LET g == GCD(a.d, b.d)
              IN R(a.n * (b.d \div g) + b.n * (a.d \div g), (a.d \div g) * b.d)
    ELSE IF IsNum(a) THEN b
    ELSE IF IsNum(b) THEN a
    ELSE IF a.n = b.n THEN a ELSE NaN

FSub(a, b) == FAdd(a, FNeg(b))

FMul(a, b) ==
    IF IsNaN(a) \/ IsNaN(b) THEN NaN
    ELSE IF IsNum(a) /\ IsNum(b)
         THEN LET g1 == GCD(Abs(a.n), b.d)
                  g2 == GCD(Abs(b.n), a.d)
              IN R((a.n \div g1) * (b.n \div g2), (a.d \div g2) * (b.d \div g1))
    ELSE IF Sign(a) * Sign(b) = 0 THEN NaN
    ELSE Inf(Sign(a) * Sign(b))

FDiv(a, b) ==
    IF IsNaN(a) \/ IsNaN(b) THEN NaN
    ELSE IF IsNum(a) /\ IsNum(b)
         THEN IF b.n = 0
              THEN IF a.n = 0 THEN NaN ELSE Inf(Sign(a))
              ELSE FMul(a, R(b.d, b.n))
    ELSE IF IsNum(b) THEN Inf(Sign(a) * (IF b.n < 0 THEN -1 ELSE 1))
    ELSE IF IsNum(a) THEN R(0, 1)
    ELSE NaN

One == R(1, 1)
Hundred == R(100, 1)

\* ------------------------------------------------------------ Series ops
\* Series.ffill(): a missing value takes the last valid value before it
RECURSIVE FFill(_)
FFill(s) ==
    IF Len(s) <= 1 THEN s
    ELSE LET p == FFill(SubSeq(s, 1, Len(s) - 1))
             x == s[Len(s)]
         IN Append(p, IF IsNaN(x) THEN p[Len(p)] ELSE x)

\* Series.pct_change(periods).  fillMethod is the default fill_method of the
\* installed pandas: "pad" (pandas < 3: forward-fill before dividing) or
\* "none" (pandas >= 3: no filling).
pct_change(s, periods) ==
    LET data == IF fillMethod = "pad" THEN FFill(s) ELSE s
    IN [i \in 1..Len(s) |->
          IF i - periods >= 1
          THEN FSub(FDiv(data[i], data[i - periods]), One)
          ELSE NaN]

\* np.cumprod over the values with every missing one replaced by 1.0: a NaN
\* the product itself produces (inf * 0) stays in the accumulator
RECURSIVE CumAcc(_, _)
CumAcc(s, i) ==
    IF i = 0 THEN One
    ELSE FMul(CumAcc(s, i - 1), IF IsNaN(s[i]) THEN One ELSE s[i])

\* Series.cumprod() (skipna=True): the accumulator, NaN where the input is
\* missing
cumprod(s) == [i \in 1..Len(s) |-> IF IsNaN(s[i]) THEN NaN ELSE CumAcc(s, i)]

SeriesScale(s, c) == [i \in 1..Len(s) |-> FMul(s[i], c)]
SeriesShift(s, c) == [i \in 1..Len(s) |-> FAdd(s[i], c)]

\* ---------------------------------------------------------- DataFrame ops
Columns(df) == DOMAIN df.cols
NRows(df) == Len(df.index)

SetItem(df, name, vals) == [df EXCEPT !.cols = (name :> vals) @@ df.cols]
DelItem(df, name) ==
    [df EXCEPT !.cols = [c \in (DOMAIN df.cols) \ {name} |-> df.cols[c]]]

RECURSIVE Pick(_, _)
Pick(s, keep) ==
    IF Len(s) = 0 THEN <<>>
    ELSE LET p == Pick(SubSeq(s, 1, Len(s) - 1), keep)
         IN IF Len(s) \in keep THEN Append(p, s[Len(s)]) ELSE p

\* DataFrame.dropna(): the rows with no NaN in any column, index kept
dropna(df) ==
    LET keep == {i \in 1..NRows(df) : \A c \in Columns(df) : ~IsNaN(df.cols[c][i])}
    IN [index |-> Pick(df.index, keep),
        cols |-> [c \in Columns(df) |-> Pick(df.cols[c], keep)]]

\* ------------------------------------------------------- column naming
CLOSE == "Close"
RETURN == "Return"
LEV_CLOSE == "Leveraged Close"
LEV_RETURN == "Leveraged Return"
ADJ_CLOSE == "Adjusted Close"
ADJ_RETURN == "Adjusted Return"

RECURSIVE NatStr(_)
NatStr(n) ==
    LET digit == <<"0", "1", "2", "3", "4", "5", "6", "7", "8", "9">>
    IN IF n < 10 THEN digit[n + 1] ELSE NatStr(n \div 10) \o digit[(n % 10) + 1]

\* str(x) / f'{x}' of a float whose fraction is .0 or .5
FloatStr(a) ==
    (IF a.n < 0 THEN "-" ELSE "") \o NatStr(Abs(a.n) \div a.d) \o "."
        \o (IF a.d = 1 THEN "0" ELSE "5")

\* column_prefixer(col, leverage), leverage already formatted as text
column_prefixer(col, text) == text \o "x " \o col

\* ----------------------------------------------------- object semantics
\* (mutation) copy() that hands back the same object
DfAlias(h, r) == [h |-> h, r |-> r]

\* DataFrame.copy(): a new object holding the same data
DfCopy(h, r) == [h |-> Append(h, h[r]), r |-> Len(h) + 1]

\* obj[name] = vals: in-place column assignment on object r
AssignCol(h, r, name, vals) == [h EXCEPT ![r] = SetItem(@, name, vals)]

\* del obj[name]
DeleteCol(h, r, name) == [h EXCEPT ![r] = DelItem(@, name)]

\* obj.dropna(): a new object
DfDropna(h, r) == [h |-> Append(h, dropna(h[r])), r |-> Len(h) + 1]

\* ------------------------------------------------------- historical.py
compute_daily_returns(h, data) ==
    LET c == DfCopy(h, data)
        h1 == AssignCol(c.h, c.r, RETURN, pct_change(c.h[c.r].cols[CLOSE], 1))
    IN DfDropna(h1, c.r)

\* (mutation) leverage clamped to at least 1.0
compute_leveraged_returns_clamped(h, data, lev, iv, prefix) ==
    LET used == IF lev.n < lev.d THEN One ELSE lev
        lev_close == IF prefix THEN column_prefixer(LEV_CLOSE, FloatStr(lev))
                     ELSE LEV_CLOSE
        lev_return == IF prefix THEN column_prefixer(LEV_RETURN, FloatStr(lev))
                      ELSE LEV_RETURN
        c == DfCopy(h, data)
        h1 == AssignCol(c.h, c.r, lev_return,
                        SeriesScale(c.h[c.r].cols[RETURN], used))
        h2 == AssignCol(h1, c.r, lev_close,
                        SeriesScale(cumprod(SeriesShift(h1[c.r].cols[lev_return], One)), iv))
    IN [h |-> h2, r |-> c.r]

compute_leveraged_returns(h, data, lev, iv, prefix) ==
    LET lev_close == IF prefix THEN column_prefixer(LEV_CLOSE, FloatStr(lev))
                     ELSE LEV_CLOSE
        lev_return == IF prefix THEN column_prefixer(LEV_RETURN, FloatStr(lev))
                      ELSE LEV_RETURN
        c == DfCopy(h, data)
        h1 == AssignCol(c.h, c.r, lev_return,
                        SeriesScale(c.h[c.r].cols[RETURN], lev))
        h2 == AssignCol(h1, c.r, lev_close,
                        SeriesScale(cumprod(SeriesShift(h1[c.r].cols[lev_return], One)), iv))
    IN [h |-> h2, r |-> c.r]

DaysPerYear == 252

\* (mutation) the drag always taken off the base return
MerSourceBase(df, prefix) == RETURN

\* the return column adjust_for_mer subtracts the drag from
MerSource(df, prefix) ==
    LET lev_return == IF prefix # "" THEN column_prefixer(LEV_RETURN, prefix)
                      ELSE LEV_RETURN
    IN IF lev_return \in Columns(df) THEN lev_return ELSE RETURN

adjust_for_mer(h, data, m, iv, prefix) ==
    LET adj_close == IF prefix # "" THEN column_prefixer(ADJ_CLOSE, prefix)
                     ELSE ADJ_CLOSE
        adj_return == IF prefix # "" THEN column_prefixer(ADJ_RETURN, prefix)
                      ELSE ADJ_RETURN
        daily_mer == FDiv(m, R(DaysPerYear, 1))
        c == DfCopy(h, data)
        column == MerSource(c.h[c.r], prefix)
        h1 == AssignCol(c.h, c.r, adj_return,
                        SeriesShift(c.h[c.r].cols[column], FNeg(daily_mer)))
        h2 == AssignCol(h1, c.r, adj_close,
                        SeriesScale(cumprod(SeriesShift(h1[c.r].cols[adj_return], One)), iv))
    IN [h |-> h2, r |-> c.r]

Min(a, b) == IF a < b THEN a ELSE b

\* (mutation) only the leveraged columns are dropped
StripLeveragedOnly(h, r, todo) ==
    LET h1 == IF LEV_CLOSE \in Columns(h[r]) THEN DeleteCol(h, r, LEV_CLOSE) ELSE h
    IN IF LEV_RETURN \in Columns(h1[r]) THEN DeleteCol(h1, r, LEV_RETURN) ELSE h1

\* the "for col in Columns" loop: drop every unprefixed derived column
RECURSIVE StripLeverageColumns(_, _, _)
StripLeverageColumns(h, r, todo) ==
    IF todo = <<>> THEN h
    ELSE LET col == Head(todo)
             h1 == IF col # CLOSE /\ col # RETURN /\ col \in Columns(h[r])
                   THEN DeleteCol(h, r, col) ELSE h
         IN StripLeverageColumns(h1, r, Tail(todo))

\* zip(leverages, mers): pairs up to the shorter of the two lists
zip(leverages, mers) ==
    [i \in 1..Min(Len(leverages), Len(mers)) |-> <<leverages[i], mers[i]>>]

\* the "for leverage, mer in zip(...)" loop, new_data rebound on every pass
RECURSIVE LeverageLoop(_, _, _, _)
LeverageLoop(h, r, pairs, iv) ==
    IF pairs = <<>> THEN [h |-> h, r |-> r]
    ELSE LET a == compute_leveraged_returns(h, r, Head(pairs)[1], iv, TRUE)
             b == adjust_for_mer(a.h, a.r, Head(pairs)[2], iv, FloatStr(Head(pairs)[1]))
         IN LeverageLoop(b.h, b.r, Tail(pairs), iv)

compute_multiple_leverages(h, data, leverages, mers, iv) ==
    LET c == DfCopy(h, data)
        d == IF RETURN \notin Columns(c.h[c.r])
             THEN compute_daily_returns(c.h, c.r) ELSE c
        h1 == StripLeverageColumns(d.h, d.r,
                  <<CLOSE, RETURN, LEV_CLOSE, LEV_RETURN, ADJ_CLOSE, ADJ_RETURN>>)
    IN LeverageLoop(h1, d.r, zip(leverages, mers), iv)

\* ------------------------------------------------------ rollingwindow.py
\* (mutation) the change left as a fraction
RollColumnFraction(h, r, col, window) ==
    AssignCol(h, r, col, pct_change(h[r].cols[col], window))

\* data[col] = data[col].pct_change(window) * 100
RollColumn(h, r, col, window) ==
    AssignCol(h, r, col, SeriesScale(pct_change(h[r].cols[col], window), Hundred))

generate_rolling_returns(h, reference_data, window, iv, m, lev) ==
    LET c == DfCopy(h, reference_data)
        d1 == compute_daily_returns(c.h, c.r)
        d2 == compute_leveraged_returns(d1.h, d1.r, lev, iv, FALSE)
        d3 == adjust_for_mer(d2.h, d2.r, m, iv, "")
        h1 == RollColumn(d3.h, d3.r, CLOSE, window)
        h2 == RollColumn(h1, d3.r, LEV_CLOSE, window)
        h3 == RollColumn(h2, d3.r, ADJ_CLOSE, window)
    IN DfDropna(h3, d3.r)

RECURSIVE RollLoop(_, _, _, _)
RollLoop(h, r, leverages, window) ==
    IF leverages = <<>> THEN h
    ELSE LET lev_close == column_prefixer(LEV_CLOSE, FloatStr(Head(leverages)))
             adj_close == column_prefixer(ADJ_CLOSE, FloatStr(Head(leverages)))
             h1 == RollColumn(h, r, lev_close, window)
             h2 == RollColumn(h1, r, adj_close, window)
         IN RollLoop(h2, r, Tail(leverages), window)

generate_rolling_returns_multiple_leverages(h, reference_data, leverages, mers, window, iv) ==
    LET c == DfCopy(h, reference_data)
        d == compute_multiple_leverages(c.h, c.r, leverages, mers, iv)
        h1 == RollColumn(d.h, d.r, CLOSE, window)
        h2 == RollLoop(h1, d.r, leverages, window)
    IN DfDropna(h2, d.r)

\* ---------------------------------------------------------- simulator.py
\* np.random.choice(a, size, replace=True) for the drawn positions
choice(a, draws) == [i \in 1..Len(draws) |-> a[draws[i]]]

\* (mutation) the sample indexed by the dates 1..L
DataFrameDated(h, sample) ==
    [h |-> Append(h, [index |-> [i \in 1..Len(sample) |-> i],
                      cols |-> (RETURN :> sample)]),
     r |-> Len(h) + 1]

\* DataFrame({RETURN: sample}): a new object with a RangeIndex
DataFrame(h, sample) ==
    [h |-> Append(h, [index |-> [i \in 1..Len(sample) |-> i - 1],
                      cols |-> (RETURN :> sample)]),
     r |-> Len(h) + 1]

generate_random_returns(h, reference_data, draws, iv, m, lev) ==
    LET c == DfCopy(h, reference_data)
        d1 == compute_daily_returns(c.h, c.r)
        d2 == DataFrame(d1.h, choice(d1.h[d1.r].cols[RETURN], draws))
        h1 == AssignCol(d2.h, d2.r, CLOSE,
                        SeriesScale(cumprod(SeriesShift(d2.h[d2.r].cols[RETURN], One)), iv))
        d3 == compute_leveraged_returns(h1, d2.r, lev, iv, FALSE)
    IN adjust_for_mer(d3.h, d3.r, m, iv, "")

\* ------------------------------------------------------------- inputs
RECURSIVE SeqsUpTo(_, _)
SeqsUpTo(S, n) ==
    IF n = 0 THEN {<<>>}
    ELSE LET shorter == SeqsUpTo(S, n - 1)
         IN shorter \cup {Append(q, x) : q \in {t \in shorter : Len(t) = n - 1}, x \in S}

\* closes: missing, or positive prices that halve and double
PriceSet == {NaN, R(50, 1), R(100, 1)}
ScenarioCloses == <<R(100, 1), R(110, 1), R(99, 1), R(1089, 10)>>
CloseSeries == SeqsUpTo(PriceSet, MaxLen) \cup {ScenarioCloses}

LeverageSet == {R(2, 1), R(-1, 1), R(1, 2)}
MerSet == {R(0, 1), R(126, 5)}
InitialValueSet == {R(1, 1), R(100, 1)}
Windows == 1..MaxLen

\* batch parameter lists: leverages alternate 2.0, 3.0 or repeat 2.0; expense
\* ratios alternate; the two lists may differ in length by one
BatchLeverages ==
    UNION {{[i \in 1..k |-> IF i % 2 = 1 THEN R(2, 1) ELSE R(3, 1)],
            [i \in 1..k |-> R(2, 1)]} : k \in 0..MaxSets}
BatchMers ==
    {[i \in 1..k |-> IF i % 2 = 1 THEN R(126, 5) ELSE R(0, 1)] : k \in 0..(MaxSets + 1)}
BatchParams ==
    {p \in BatchLeverages \X BatchMers :
        Len(p[2]) - Len(p[1]) \in {-1, 0, 1}}

\* the frame download_data returns: a Close column over a date index
ReferenceFrame(closes) ==
    [index |-> [i \in 1..Len(closes) |-> i], cols |-> (CLOSE :> closes)]

NoCall(df) ==
    [op |-> "none", src |-> "reference", outcome |-> "ok", before |-> df, after |-> df,
     leverages |-> <<>>, mers |-> <<>>, window |-> 0, draws |-> <<>>]

\* how far the run is along main(), in the order of main()'s steps
StageDownloaded == 1
StageDerived == 2
StageLeveraged == 3
StageAdjusted == 4
StageRolled == 5
StageFinal == 6

InitSeries ==
    /\ \E closes \in CloseSeries :
          /\ heap = <<ReferenceFrame(closes)>>
          /\ last = NoCall(ReferenceFrame(closes))
    /\ cur = 1
    /\ stage = StageDownloaded
    /\ fillMethod \in {"pad", "none"}

\* every request
InitFull ==
    /\ InitSeries
    /\ leverage \in LeverageSet
    /\ mer \in MerSet
    /\ initial_value \in InitialValueSet

\* the rolling change of a path does not depend on its anchor
InitRoll ==
    /\ InitSeries
    /\ leverage \in LeverageSet \cup {R(3, 1)}
    /\ mer \in MerSet
    /\ initial_value = R(1, 1)

\* one request: the default leverage and anchor, a non-zero expense ratio
Init ==
    /\ InitSeries
    /\ leverage = R(2, 1)
    /\ mer = R(126, 5)
    /\ initial_value = R(1, 1)

\* ------------------------------------------------------------- calls
\* A call takes the reference series or the caller's current `data`.  Calls
\* on `data` follow the order in which historical.main chains them: daily
\* returns, leverage, MER, then the batch.  rollingwindow.main calls
\* generate_rolling_returns and then, on the same reference data and window,
\* generate_rolling_returns_multiple_leverages.  The batch, the simulation
\* and the second rolling call end the run.
Sources == {"reference", "data"}
Arg(src) == IF src = "reference" THEN 1 ELSE cur
CanCall(src, s) ==
    /\ stage < StageRolled
    /\ src = "reference" \/ (stage >= StageDerived /\ stage < s)

\* the rolling and simulation analyses take reference data: the download
\* (rollingwindow.main) or its daily returns (simulator.main)
CanAnalyse(src) ==
    /\ stage < StageRolled
    /\ src = "reference" \/ stage = StageDerived

\* the call returned res: the caller rebinds `data` to the result; objects
\* no variable refers to any more are collected
Return(call, src, s, res) ==
    /\ heap' = IF res.r = 1 THEN <<res.h[1]>> ELSE <<res.h[1], res.h[res.r]>>
    /\ cur' = IF res.r = 1 THEN 1 ELSE 2
    /\ stage' = s
    /\ last' = [call EXCEPT !.src = src, !.outcome = "ok",
                            !.before = heap[Arg(src)], !.after = res.h[Arg(src)]]
    /\ UNCHANGED <<fillMethod, leverage, mer, initial_value>>

\* the call raised: nothing is rebound, and the uncaught exception ends the run
Raise(call, src, err) ==
    /\ stage' = StageFinal
    /\ last' = [call EXCEPT !.src = src, !.outcome = err,
                            !.before = heap[Arg(src)], !.after = heap[Arg(src)]]
    /\ UNCHANGED <<heap, cur, fillMethod, leverage, mer, initial_value>>

Call(op) == [NoCall(heap[1]) EXCEPT !.op = op]

DeriveReturns ==
    \E src \in Sources :
       /\ CanCall(src, StageDerived)
       /\ Return(Call("compute_daily_returns"), src, StageDerived,
                 compute_daily_returns(heap, Arg(src)))

ApplyLeverage ==
    \E src \in Sources :
       /\ CanCall(src, StageLeveraged)
       /\ IF RETURN \in Columns(heap[Arg(src)])
          THEN Return(Call("compute_leveraged_returns"), src, StageLeveraged,
                      compute_leveraged_returns(heap, Arg(src), leverage, initial_value, FALSE))
          ELSE Raise(Call("compute_leveraged_returns"), src, "KeyError")

ApplyExpenseDrag ==
    \E src \in Sources :
       /\ CanCall(src, StageAdjusted)
       /\ IF MerSource(heap[Arg(src)], "") \in Columns(heap[Arg(src)])
          THEN Return(Call("adjust_for_mer"), src, StageAdjusted,
                      adjust_for_mer(heap, Arg(src), mer, initial_value, ""))
          ELSE Raise(Call("adjust_for_mer"), src, "KeyError")

RunBatch ==
    \E src \in Sources, p \in BatchParams :
       /\ CanCall(src, StageFinal)
       /\ Return([Call("compute_multiple_leverages") EXCEPT
                      !.leverages = p[1], !.mers = p[2]], src, StageFinal,
                 compute_multiple_leverages(heap, Arg(src), p[1], p[2], initial_value))

RollingReturns ==
    \E src \in Sources, window \in Windows :
       /\ CanAnalyse(src)
       /\ Return([Call("generate_rolling_returns") EXCEPT !.window = window], src,
                 StageRolled,
                 generate_rolling_returns(heap, Arg(src), window, initial_value, mer, leverage))

\* the second call of rollingwindow.main: same reference data, same window.
\* data[lev_close] raises KeyError for a leverage zip() left without a pair
RollingReturnsMultiple ==
    \E p \in BatchParams :
       LET call == [Call("generate_rolling_returns_multiple_leverages") EXCEPT
                        !.window = last.window, !.leverages = p[1], !.mers = p[2]]
       IN /\ stage = StageRolled
          /\ IF \A i \in 1..Len(p[1]) : \E j \in 1..Min(Len(p[1]), Len(p[2])) : p[1][j] = p[1][i]
             THEN Return(call, "reference", StageFinal,
                         generate_rolling_returns_multiple_leverages(
                             heap, 1, p[1], p[2], last.window, initial_value))
             ELSE Raise(call, "reference", "KeyError")

\* the rows compute_daily_returns keeps: what np.random.choice draws from
HistoricalReturns(df) ==
    LET d == compute_daily_returns(<<df>>, 1) IN d.h[d.r].cols[RETURN]

\* np.random.choice raises ValueError on an empty population
Simulate ==
    \E src \in Sources, size \in 1..MaxSize :
       LET n == Len(HistoricalReturns(heap[Arg(src)]))
       IN /\ CanAnalyse(src)
          /\ IF n = 0
             THEN Raise(Call("generate_random_returns"), src, "ValueError")
             ELSE \E draws \in [1..size -> 1..n] :
                     Return([Call("generate_random_returns") EXCEPT !.draws = draws], src,
                            StageFinal,
                            generate_random_returns(heap, Arg(src), draws,
                                                    initial_value, mer, leverage))

Next ==
    \/ DeriveReturns
    \/ ApplyLeverage
    \/ ApplyExpenseDrag
    \/ RunBatch
    \/ RollingReturns
    \/ RollingReturnsMultiple
    \/ Simulate

NextHist ==
    \/ DeriveReturns
    \/ ApplyLeverage
    \/ ApplyExpenseDrag

NextRoll ==
    \/ RollingReturns
    \/ RollingReturnsMultiple

NextSim ==
    \/ DeriveReturns
    \/ Simulate

\* every transformation, on one request
Spec == Init /\ [][Next]_vars
\* the single-leverage pass of historical.py, on every request
SpecHist == InitFull /\ [][NextHist]_vars
\* rollingwindow.main, on every request with anchor 1.0
SpecRoll == InitRoll /\ [][NextRoll]_vars
\* generate_random_returns, on every request
SpecSim == InitFull /\ [][NextSim]_vars

\* ------------------------------------------------------------ properties
Ref == heap[1]
Data == heap[cur]
Returned(op) == last.op = op /\ last.outcome = "ok"
Defined(s) == \A i \in 1..Len(s) : ~IsNaN(s[i])
DailyMer(m) == FDiv(m, R(DaysPerYear, 1))

\* anchor * (1 + rs[1]) * ... * (1 + rs[i])
RECURSIVE Compound(_, _, _)
Compound(rs, i, anchor) ==
    IF i = 0 THEN anchor ELSE FMul(Compound(rs, i - 1, anchor), FAdd(One, rs[i]))

\* C1: a batch whose leverage and expense-ratio lists differ in length fails
\* with ParameterLengthMismatchError instead of returning a table.
C1_MismatchRaises ==
    (/\ last.op = "compute_multiple_leverages"
     /\ Len(last.leverages) # Len(last.mers)
     /\ NRows(last.before) >= 2)
        => last.outcome = "ParameterLengthMismatchError"

\* C2: a rolling return whose window is at least the series length fails with
\* WindowTooLargeError, and no rolling return is ever an empty series.
C2_WindowTooLargeRaises ==
    (/\ last.op \in {"generate_rolling_returns",
                     "generate_rolling_returns_multiple_leverages"}
     /\ NRows(last.before) >= 2)
        => /\ last.window >= NRows(last.before) => last.outcome = "WindowTooLargeError"
           /\ last.outcome = "ok" => NRows(Data) > 0

\* the rolling percentage change of a path p of the reference rows 2..n
RollValue(p, i, w) == FMul(FSub(FDiv(p[i], p[i - w]), One), Hundred)

\* the paths generate_rolling_returns windows, over the rows 1..n of a fully
\* defined reference series (row 1 has no return)
DailyReturn(c, i) == FSub(FDiv(c[i], c[i - 1]), One)
LevPath(c, lev, drag, anchor) ==
    LET rs == [k \in 1..(Len(c) - 1) |-> FSub(FMul(DailyReturn(c, k + 1), lev), drag)]
    IN [i \in 1..Len(c) |-> Compound(rs, i - 1, anchor)]

\* C3 as claimed: on a fully defined series of n >= 2 closes a window
\* 1 <= w < n keeps the index with exactly the first w rows removed, each row
\* holding 100 * (price_i / price_{i-w} - 1).
C3_Original ==
    (/\ Returned("generate_rolling_returns")
     /\ Defined(last.before.cols[CLOSE])
     /\ NRows(last.before) >= 2
     /\ last.window < NRows(last.before))
        => LET n == NRows(last.before)
               w == last.window
               c == last.before.cols[CLOSE]
           IN /\ Data.index = [j \in 1..(n - w) |-> last.before.index[j + w]]
              /\ Data.cols[CLOSE] = [j \in 1..(n - w) |-> RollValue(c, j + w, w)]

\* C3 amended: daily returns are derived first, so the first w + 1 rows are
\* removed (n - 1 - w rows, one row for w = n - 2); each kept row holds
\* 100 * (price_i / price_{i-w} - 1) for the close, leveraged and adjusted
\* paths; a row whose leveraged or adjusted path is 0 at both ends of the
\* window (0/0) is dropped as well.
C3_RollingDropsWindowPlusOne ==
    (/\ Returned("generate_rolling_returns")
     /\ Defined(last.before.cols[CLOSE])
     /\ NRows(last.before) >= 2)
        => LET n == NRows(last.before)
               w == last.window
               c == last.before.cols[CLOSE]
               lp == LevPath(c, leverage, R(0, 1), initial_value)
               ap == LevPath(c, leverage, DailyMer(mer), initial_value)
               keep == {i \in (w + 2)..n :
                          /\ ~IsNaN(RollValue(lp, i, w))
                          /\ ~IsNaN(RollValue(ap, i, w))}
               zeroFree == \A i \in 2..n : lp[i].n # 0 /\ ap[i].n # 0
           IN /\ Data.index = Pick(last.before.index, keep)
              /\ Data.cols[CLOSE] = Pick([i \in 1..n |-> IF i > w + 1 THEN RollValue(c, i, w) ELSE NaN], keep)
              /\ Data.cols[LEV_CLOSE] = Pick([i \in 1..n |-> IF i > w + 1 THEN RollValue(lp, i, w) ELSE NaN], keep)
              /\ Data.cols[ADJ_CLOSE] = Pick([i \in 1..n |-> IF i > w + 1 THEN RollValue(ap, i, w) ELSE NaN], keep)
              /\ zeroFree => NRows(Data) = (IF n - 1 - w > 0 THEN n - 1 - w ELSE 0)
              /\ (zeroFree /\ w = n - 2) => NRows(Data) = 1

C3_Witness ==
    /\ Returned("generate_rolling_returns")
    /\ Defined(last.before.cols[CLOSE])
    /\ NRows(last.before) = 3
    /\ last.window = 1
    /\ NRows(Data) = 1
    /\ Data.index = <<3>>

\* C4: on a series with at least 2 valid closes compute_daily_returns keeps
\* exactly the rows whose own close and whose predecessor's close are both
\* present (input length - gaps - 1 rows), each return being
\* close_i / close_{i-1} - 1 of those two consecutive closes.
C4_DeriveReturnsDropsGaps ==
    (/\ Returned("compute_daily_returns")
     /\ Cardinality({i \in 1..NRows(last.before) : ~IsNaN(last.before.cols[CLOSE][i])}) >= 2)
        => LET c == last.before.cols[CLOSE]
               n == Len(c)
               keep == {i \in 2..n : ~IsNaN(c[i]) /\ ~IsNaN(c[i - 1])}
               gaps == {i \in 2..n : IsNaN(c[i]) \/ IsNaN(c[i - 1])}
           IN /\ NRows(Data) = n - Cardinality(gaps) - 1
              /\ Data.index = Pick(last.before.index, keep)
              /\ Data.cols[RETURN] =
                    Pick([i \in 1..n |-> IF i >= 2 THEN DailyReturn(c, i) ELSE NaN], keep)

\* the leveraged columns as the formula gives them, row by row
LeverageFormulaHolds ==
    LET rs == last.before.cols[RETURN]
        lr == [i \in 1..Len(rs) |-> FMul(rs[i], leverage)]
    IN /\ Data.index = last.before.index
       /\ Data.cols[LEV_RETURN] = lr
       /\ Data.cols[LEV_CLOSE] = [i \in 1..Len(rs) |-> Compound(lr, i, initial_value)]

\* the scenario: closes [100, 110, 99, 108.9] through compute_daily_returns,
\* then leverage 2.0 anchored at 100
ScenarioLeveraged ==
    /\ Returned("compute_leveraged_returns")
    /\ Ref.cols[CLOSE] = ScenarioCloses
    /\ last.before.cols[RETURN] = <<R(1, 10), R(-1, 10), R(1, 10)>>
    /\ leverage = R(2, 1)
    /\ initial_value = R(100, 1)

\* C5 as claimed: leveragedReturn_i = r_i * leverage and leveragedClose_i =
\* initialValue * prod_{k<=i} (1 + leveragedReturn_k) with no clamping, and the
\* scenario's leveraged close path is [100, 120, 96, 115.2].
C5_Original ==
    /\ Returned("compute_leveraged_returns") => LeverageFormulaHolds
    /\ ScenarioLeveraged
          => Data.cols[LEV_CLOSE] = <<R(100, 1), R(120, 1), R(96, 1), R(576, 5)>>

\* C5 amended: the same formula, and the scenario's leveraged close path is
\* [120, 96, 115.2] on the three rows that carry a return: the anchor is not
\* a row of the path.
C5_LeverageCompounds ==
    /\ Returned("compute_leveraged_returns") => LeverageFormulaHolds
    /\ ScenarioLeveraged
          => /\ Data.index = <<2, 3, 4>>
             /\ Data.cols[LEV_CLOSE] = <<R(120, 1), R(96, 1), R(576, 5)>>

C5_Witness ==
    /\ ScenarioLeveraged
    /\ Data.cols[LEV_CLOSE][3] = R(576, 5)

\* C6: every parameter set of a batch, repeated leverage values included,
\* has its own four columns in the result.
C6_ColumnsPerParameterSet ==
    (/\ Returned("compute_multiple_leverages")
     /\ Len(last.leverages) = Len(last.mers)
     /\ NRows(last.before) >= 2)
        => Cardinality(Columns(Data) \ {CLOSE, RETURN}) = 4 * Len(last.leverages)

\* C7: a batch run on a frame that already carries returns strips the
\* unprefixed leveraged and adjusted columns and keeps Close, Return and the
\* index as they were: returns are not derived again.
C7_BatchStripsSinglePass ==
    (Returned("compute_multiple_leverages") /\ RETURN \in Columns(last.before))
        => /\ Columns(Data) \cap {LEV_CLOSE, LEV_RETURN, ADJ_CLOSE, ADJ_RETURN} = {}
           /\ Data.index = last.before.index
           /\ Data.cols[CLOSE] = last.before.cols[CLOSE]
           /\ Data.cols[RETURN] = last.before.cols[RETURN]

C7_Witness ==
    /\ Returned("compute_multiple_leverages")
    /\ {LEV_CLOSE, LEV_RETURN, ADJ_CLOSE, ADJ_RETURN} \subseteq Columns(last.before)
    /\ NRows(last.before) >= 2
    /\ Len(last.leverages) >= 1
    /\ Len(last.mers) >= 1

\* the adjusted columns a of a frame, built from the return column s with
\* expense ratio m
DragFormulaHolds(df, source, adj_return, adj_close, m) ==
    LET ar == [i \in 1..Len(source) |-> FSub(source[i], DailyMer(m))]
    IN /\ df.cols[adj_return] = ar
       /\ df.cols[adj_close] = [i \in 1..Len(source) |-> Compound(ar, i, initial_value)]

\* the expense ratio zip() pairs last with leverage value lev
LastMerFor(lev) ==
    LET pairs == zip(last.leverages, last.mers)
        js == {j \in 1..Len(pairs) : pairs[j][1] = lev}
    IN pairs[CHOOSE j \in js : \A m \in js : m <= j][2]

\* C8: adjustedReturn_i = sourceReturn_i - annualExpenseRatio / 252 and
\* adjustedClose_i = initialValue * prod_{k<=i} (1 + adjustedReturn_k), where
\* sourceReturn is the leveraged return when the input has one and the base
\* return otherwise; in a batch it is the leveraged return of the same
\* leverage value.
C8_DragSource ==
    /\ Returned("adjust_for_mer")
          => DragFormulaHolds(Data,
                 IF LEV_RETURN \in Columns(last.before)
                 THEN last.before.cols[LEV_RETURN] ELSE last.before.cols[RETURN],
                 ADJ_RETURN, ADJ_CLOSE, mer)
    /\ Returned("compute_multiple_leverages")
          => \A j \in 1..Min(Len(last.leverages), Len(last.mers)) :
                LET lev == last.leverages[j]
                    own == [i \in 1..NRows(Data) |-> FMul(Data.cols[RETURN][i], lev)]
                IN /\ Data.cols[column_prefixer(LEV_RETURN, FloatStr(lev))] = own
                   /\ DragFormulaHolds(Data, own,
                          column_prefixer(ADJ_RETURN, FloatStr(lev)),
                          column_prefixer(ADJ_CLOSE, FloatStr(lev)), LastMerFor(lev))

C8_Witness ==
    /\ Returned("adjust_for_mer")
    /\ LEV_RETURN \in Columns(last.before)
    /\ NRows(Data) >= 2
    /\ Data.cols[ADJ_RETURN] # last.before.cols[RETURN]
    /\ \E i \in 1..NRows(Data) : last.before.cols[LEV_RETURN][i] # last.before.cols[RETURN][i]

\* C9: no call changes the frame it is given: the reference series keeps
\* its columns, index and values across every sequence of calls.
C9_InputsNotMutated ==
    [][heap'[1] = heap[1] /\ last'.after = last'.before]_vars

C9_Witness ==
    /\ Returned("compute_multiple_leverages")
    /\ last.src = "data"
    /\ stage = StageFinal
    /\ NRows(Ref) >= 2
    /\ Columns(Ref) = {CLOSE}
    /\ Columns(last.before) = {CLOSE, RETURN, LEV_CLOSE, LEV_RETURN, ADJ_CLOSE, ADJ_RETURN}
    /\ Len(last.leverages) = 2

\* C10: a simulation of length L over a non-empty set of historical returns
\* has L rows indexed 0..L-1, every return drawn from the historical
\* returns, Close compounding from the anchor, and all six columns defined.
C10_SimulatedSeries ==
    Returned("generate_random_returns")
        => LET L == Len(last.draws)
               hist == HistoricalReturns(last.before)
               rs == Data.cols[RETURN]
           IN /\ L >= 1
              /\ Data.index = [i \in 1..L |-> i - 1]
              /\ Len(rs) = L
              /\ \A i \in 1..L : \E j \in 1..Len(hist) : rs[i] = hist[j]
              /\ Data.cols[CLOSE] = [i \in 1..L |-> Compound(rs, i, initial_value)]
              /\ Columns(Data) = {CLOSE, RETURN, LEV_CLOSE, LEV_RETURN, ADJ_CLOSE, ADJ_RETURN}
              /\ \A c \in Columns(Data) : Len(Data.cols[c]) = L /\ Defined(Data.cols[c])

C10_Witness ==
    /\ Returned("generate_random_returns")
    /\ Len(last.draws) = 2
    /\ last.draws[1] = last.draws[2]
    /\ Len(HistoricalReturns(last.before)) >= 2
    /\ Data.cols[RETURN][1] = Data.cols[RETURN][2]

====
